---- MODULE Spec2Model ----
(***************************************************************************)
(* Model of the expense tracker component (src/app/page.tsx): the wallet   *)
(* collection, the active wallet, the transaction form, and the load/save  *)
(* effects that move the collection to and from localStorage, the period   *)
(* filter (viewMode, currentDate, selectedDay) and the values derived from *)
(* them.  State that only selects what is drawn (darkMode,                 *)
(* isCreatingWallet) is left out.                                          *)
(***************************************************************************)
EXTENDS Integers, Sequences, FiniteSets, TLC

\* ------------------------------------------------------------------ bounds
\* number of ids crypto.randomUUID may hand out in one behaviour
MaxUuid == 2
\* number of wallets the collection may grow to through handleCreateWallet
MaxWallets == 3
\* number of transactions one wallet may grow to through handleSubmit
MaxTxns == 1
\* navigateTime is followed while the year of currentDate stays within
\* MaxYearsAway years of the year the page was opened in
MaxYearsAway == 1

\* ------------------------------------------------------- values and inputs
\* null, as held by activeWalletId and editingId before they are set
NoId == 0
\* null, as held by selectedDay while no day is selected
NoDay == 0
\* ids produced by crypto.randomUUID are FirstUuid + 1, FirstUuid + 2, ...
FirstUuid == 100

\* new Date().toISOString().split("T")[0], the date the form is reset to
Today == "2024-03-15"

Descriptions == {"", "pay"}
AmountTexts == {"", "7"}
\* the amount texts of the form-only specification: a number input also
\* holds a negative number the user typed
FormAmountTexts == {"", "7", "-5"}
\* the options of the category select
AllCategories ==
  {"General", "Food", "Transport", "Utilities", "Entertainment", "Salary"}
Dates == {"", Today}
Types == {"expense", "income"}
Categories == {"General", "Food"}
WalletNames == {" ", "Trip"}

\* parseFloat on the amount texts the form and the stored data can hold
parseFloat(text) ==
  CASE text = "40" -> 40
    [] text = "7" -> 7
    [] text = "100" -> 100
    [] text = "-5" -> -5

\* Number.prototype.toString on the amounts transactions can hold
toString(n) ==
  CASE n = 40 -> "40"
    [] n = 7 -> "7"
    [] n = 100 -> "100"
    [] n = -5 -> "-5"

\* new Date(text) for a date-only text: midnight UTC of that calendar date
DateOf(text) ==
  CASE text = "2024-03-15" -> [y |-> 2024, m |-> 2, d |-> 15]
    [] text = "2024-03-01" -> [y |-> 2024, m |-> 2, d |-> 1]
    [] text = "2024-03-05" -> [y |-> 2024, m |-> 2, d |-> 5]
    [] text = "2024-03-10" -> [y |-> 2024, m |-> 2, d |-> 10]
    [] text = "2024-03-20" -> [y |-> 2024, m |-> 2, d |-> 20]
    [] text = "2024-04-01" -> [y |-> 2024, m |-> 3, d |-> 1]
    [] text = "2024-01-31" -> [y |-> 2024, m |-> 0, d |-> 31]
    [] text = "2024-02-29" -> [y |-> 2024, m |-> 1, d |-> 29]
    [] text = "2025-01-01" -> [y |-> 2025, m |-> 0, d |-> 1]

\* toISOString().split("T")[0] of the days the page may be opened on
toISOString(day) ==
  CASE day = [y |-> 2024, m |-> 2, d |-> 15] -> "2024-03-15"
    [] day = [y |-> 2024, m |-> 0, d |-> 31] -> "2024-01-31"
    [] day = [y |-> 2024, m |-> 1, d |-> 29] -> "2024-02-29"

\* String.prototype.trim on the wallet names the input can hold
trim(s) == IF s = " " THEN "" ELSE s

Wallet(i, n, ts) == [id |-> i, name |-> n, transactions |-> ts]

Transaction(i, d, a, ty, dt, c) ==
  [id |-> i, description |-> d, amount |-> a, type |-> ty, date |-> dt,
   category |-> c]

\* ------------------------------------------------------------ localStorage
\* The value under "expense-tracker-data": absent (getItem gives null), the
\* empty string, text JSON.parse rejects, JSON that is not an array, or a
\* JSON array of items.  A primitive item (null, a number) is Primitive.
Absent == [kind |-> "absent", items |-> <<>>]
EmptyText == [kind |-> "empty", items |-> <<>>]
Garbage == [kind |-> "garbage", items |-> <<>>]
NonArray == [kind |-> "nonarray", items |-> <<>>]
JsonArray(items) == [kind |-> "array", items |-> items]
Primitive == [primitive |-> "null"]

StoredT1 == Transaction(11, "rent", 40, "expense", Today, "General")
StoredT2 == Transaction(12, "rent", 40, "expense", Today, "General")

\* what an earlier session, of this version or of the single-list version,
\* or anything else, may have left under the key
StoredValues ==
  { Absent, EmptyText, Garbage, NonArray,
    JsonArray(<<>>), JsonArray(<<Primitive>>),
    JsonArray(<<StoredT1, StoredT2>>),
    JsonArray(<<Wallet(1, "Home", <<StoredT1>>), Wallet(2, "Work", <<>>)>>) }

\* a serialization that keeps the first wallet only
stringifyFirst(ws) == JsonArray(SubSeq(ws, 1, 1))

\* JSON.stringify(wallets)
stringify(ws) == JsonArray(ws)

VARIABLES
  pc,               \* "constructed", "mounted" (mount effects ran), "ready"
  wallets, activeWalletId, newWalletName, isMounted,
  description, amount, type, date, category, editingId,
  localStorage,     \* [data: the value under the key, writer: who stored
                    \*  it, written: setItem ran since the page was opened]
  uuid,             \* how many ids crypto.randomUUID has handed out
  viewMode, selectedDay,
  currentDate,      \* [y, m, d]: getFullYear(), getMonth(), getDate()
  timeZone,         \* hours the local time is ahead of UTC
  lastOp            \* the handler that ran last, its argument and outcome

vars == <<pc, wallets, activeWalletId, newWalletName, isMounted,
          description, amount, type, date, category, editingId,
          localStorage, uuid, viewMode, selectedDay, currentDate, timeZone,
          lastOp>>

viewVars == <<viewMode, selectedDay, currentDate, timeZone>>
formVars == <<description, amount, type, date, category, editingId>>
envVars == <<pc, isMounted, viewVars>>

\* outcome: the dialog the handler showed and its answer ("alert", "accepted",
\* "declined"), "refused" for an early return, "resave" for a save of data
\* this program had stored before, "none" otherwise
Op(name, id, outcome) == [op |-> name, id |-> id, outcome |-> outcome]

randomUUID(n) == FirstUuid + n + 1

\* ----------------------------------------------------------- load and save
\* JSON.parse(savedData) throws
parseThrows(savedData) == savedData.kind = "garbage"

\* a probe that answers false for a primitive instead of throwing
probeThrowsNever(item) == FALSE

\* 'transactions' in item throws a TypeError when item is not an object
probeThrows(item) == "primitive" \in DOMAIN item

\* a migration that wraps the legacy array but loses its transactions
parsedWalletsDropLegacy(savedData, freshId) ==
  IF savedData.kind # "array" THEN <<>>
  ELSE LET parsed == savedData.items IN
    IF Len(parsed) > 0 /\ probeThrows(parsed[1]) THEN <<>>
    ELSE IF Len(parsed) > 0 /\ "transactions" \in DOMAIN parsed[1]
      THEN parsed
      ELSE <<Wallet(freshId, "Main Wallet", <<>>)>>

\* a load that gives the first stored wallet a new id
parsedWalletsRemint(savedData, freshId) ==
  IF savedData.kind # "array" THEN <<>>
  ELSE LET parsed == savedData.items IN
    IF Len(parsed) > 0 /\ probeThrows(parsed[1]) THEN <<>>
    ELSE IF Len(parsed) > 0 /\ "transactions" \in DOMAIN parsed[1]
      THEN [parsed EXCEPT ![1].id = freshId]
      ELSE <<Wallet(freshId, "Main Wallet", parsed)>>

\* the try block of the load effect: initialWallets before the default
parsedWallets(savedData, freshId) ==
  IF savedData.kind \in {"absent", "empty"} THEN <<>>
  ELSE IF parseThrows(savedData) THEN <<>>
  ELSE IF savedData.kind # "array" THEN <<>>
  ELSE LET parsed == savedData.items IN
    IF Len(parsed) > 0 /\ probeThrows(parsed[1]) THEN <<>>
    ELSE IF Len(parsed) > 0 /\ "transactions" \in DOMAIN parsed[1]
      THEN parsed
      ELSE <<Wallet(freshId, "Main Wallet", parsed)>>

\* initialWallets of the load effect
initialWallets(savedData, freshId) ==
  LET loaded == parsedWallets(savedData, freshId) IN
  IF Len(loaded) = 0 THEN <<Wallet(freshId, "Main Wallet", <<>>)>>
  ELSE loaded

\* TRUE when the load effect calls crypto.randomUUID
loadMints(savedData) ==
  initialWallets(savedData, NoId) # initialWallets(savedData, FirstUuid)

\* a save effect without the isMounted guard
saveEffectUnguarded(mounted, ws, ls) ==
  [data |-> stringify(ws), writer |-> "app", written |-> TRUE]

\* the save effect, as run with the isMounted and wallets of one render
saveEffect(mounted, ws, ls) ==
  IF mounted
    THEN [data |-> stringify(ws), writer |-> "app", written |-> TRUE]
    ELSE ls

\* --------------------------------------------------------------- lifecycle
\* the state after construction, for a page opened on one of the days
\* `opened` in one of the time zones `zones` over one of the values `stored`
InitWith(stored, opened, zones) ==
  /\ pc = "constructed"
  /\ wallets = <<>>
  /\ activeWalletId = NoId
  /\ newWalletName = ""
  /\ isMounted = FALSE
  /\ viewMode = "daily"
  /\ currentDate \in opened
  /\ selectedDay = NoDay
  /\ timeZone \in zones
  /\ description = ""
  /\ amount = ""
  /\ type = "expense"
  /\ date = toISOString(currentDate)
  /\ category = "General"
  /\ editingId = NoId
  /\ \E s \in stored :
       localStorage = [data |-> s, writer |-> "other", written |-> FALSE]
  /\ uuid = 0
  /\ lastOp = Op("construct", NoId, "none")

Init == InitWith(StoredValues, {DateOf(Today)}, {0})

\* The first commit: the load effect, then the save effect of the same
\* render, which still sees isMounted = false and wallets = [].
Mount ==
  /\ pc = "constructed"
  /\ loadMints(localStorage.data) => uuid < MaxUuid
  /\ LET init == initialWallets(localStorage.data, randomUUID(uuid)) IN
       /\ wallets' = init
       /\ activeWalletId' = init[1].id
  /\ uuid' = IF loadMints(localStorage.data) THEN uuid + 1 ELSE uuid
  /\ isMounted' = TRUE
  /\ localStorage' = saveEffect(isMounted, wallets, localStorage)
  /\ pc' = "mounted"
  /\ lastOp' = Op("load", NoId, "none")
  /\ UNCHANGED <<formVars, newWalletName, viewVars>>

\* The second commit: wallets and isMounted changed, the save effect reruns.
Settle ==
  /\ pc = "mounted"
  /\ localStorage' = saveEffect(isMounted, wallets, localStorage)
  /\ pc' = "ready"
  /\ lastOp' = Op("save", NoId,
                  IF localStorage.writer = "app" THEN "resave" ELSE "none")
  /\ UNCHANGED <<wallets, activeWalletId, isMounted, formVars, newWalletName,
                 uuid, viewVars>>

\* The page is reloaded: the component is constructed again, localStorage
\* and the id generator carry on.
Reload ==
  /\ pc = "ready"
  /\ pc' = "constructed"
  /\ wallets' = <<>>
  /\ activeWalletId' = NoId
  /\ newWalletName' = ""
  /\ isMounted' = FALSE
  /\ description' = ""
  /\ amount' = ""
  /\ type' = "expense"
  /\ date' = Today
  /\ category' = "General"
  /\ editingId' = NoId
  /\ viewMode' = "daily"
  /\ currentDate' = DateOf(Today)
  /\ selectedDay' = NoDay
  /\ localStorage' = [localStorage EXCEPT !.written = FALSE]
  /\ lastOp' = Op("construct", NoId, "none")
  /\ UNCHANGED <<uuid, timeZone>>

\* ---------------------------------------------------------------- wallets
ids(ws) == {ws[i].id : i \in 1..Len(ws)}

\* wallets.find(w => w.id === activeWalletId) ? activeWallet.transactions : []
transactions ==
  LET found == {i \in 1..Len(wallets) : wallets[i].id = activeWalletId} IN
  IF found = {} THEN <<>>
  ELSE wallets[CHOOSE i \in found : \A j \in found : i <= j].transactions

\* a name check that forgets to trim
createRefusedNoTrim(name) == name = ""

\* !newWalletName.trim()
createRefused(name) == trim(name) = ""

handleCreateWallet ==
  /\ pc = "ready"
  /\ IF createRefused(newWalletName)
       THEN /\ lastOp' = Op("createWallet", NoId, "refused")
            /\ UNCHANGED <<wallets, activeWalletId, newWalletName,
                           localStorage, uuid>>
       ELSE /\ uuid < MaxUuid
            /\ Len(wallets) < MaxWallets
            /\ LET newWallet == Wallet(randomUUID(uuid), newWalletName, <<>>)
               IN /\ wallets' = Append(wallets, newWallet)
                  /\ activeWalletId' = newWallet.id
            /\ uuid' = uuid + 1
            /\ newWalletName' = ""
                      /\ localStorage' = saveEffect(isMounted, wallets', localStorage)
            /\ lastOp' = Op("createWallet", randomUUID(uuid), "none")
  /\ UNCHANGED <<formVars, envVars>>

\* a last-wallet check that is off by one
deleteRefusedNone(ws) == Len(ws) < 1

\* wallets.length <= 1
deleteRefused(ws) == Len(ws) <= 1

\* a removal by position that ignores the id
withoutWalletFirst(ws, walletId) == Tail(ws)

\* wallets.filter(w => w.id !== walletId)
withoutWallet(ws, walletId) ==
  LET keep(w) == w.id # walletId IN SelectSeq(ws, keep)

\* a delete that leaves the active id as it was
activeAfterDeleteStale(active, walletId, updatedWallets) == active

\* if (activeWalletId === walletId) setActiveWalletId(updatedWallets[0].id);
\* reading updatedWallets[0].id of an empty array throws before the setter
activeAfterDelete(active, walletId, updatedWallets) ==
  IF active = walletId /\ Len(updatedWallets) > 0
    THEN updatedWallets[1].id
    ELSE active

handleDeleteWallet(walletId, confirmed) ==
  /\ pc = "ready"
  /\ IF deleteRefused(wallets)
       THEN /\ lastOp' = Op("deleteWallet", walletId, "alert")
            /\ UNCHANGED <<wallets, activeWalletId, localStorage>>
       ELSE IF confirmed
         THEN /\ wallets' = withoutWallet(wallets, walletId)
              /\ activeWalletId' =
                   activeAfterDelete(activeWalletId, walletId, wallets')
              /\ localStorage' = saveEffect(isMounted, wallets', localStorage)
              /\ lastOp' = Op("deleteWallet", walletId, "accepted")
         ELSE /\ lastOp' = Op("deleteWallet", walletId, "declined")
              /\ UNCHANGED <<wallets, activeWalletId, localStorage>>
  /\ UNCHANGED <<formVars, newWalletName, envVars, uuid>>

\* a wallet select that also drops the selected day
setActiveWalletIdAndDay(id) ==
  /\ pc = "ready"
  /\ activeWalletId' = id
  /\ selectedDay' = NoDay
  /\ lastOp' = Op("setActive", id, "none")
  /\ UNCHANGED <<wallets, formVars, newWalletName, pc, isMounted, viewMode,
                 currentDate, timeZone, localStorage, uuid>>

\* onChange of the wallet select
setActiveWalletId(id) ==
  /\ pc = "ready"
  /\ activeWalletId' = id
  /\ lastOp' = Op("setActive", id, "none")
  /\ UNCHANGED <<wallets, formVars, newWalletName, envVars, localStorage, uuid>>

setNewWalletName(v) ==
  /\ pc = "ready"
  /\ newWalletName' = v
  /\ lastOp' = Op("input", NoId, "none")
  /\ UNCHANGED <<wallets, activeWalletId, formVars, envVars, localStorage,
                 uuid>>

\* ----------------------------------------------------------- transactions
\* a guard that forgets the date
submitRefusedNoDate ==
  description = "" \/ amount = "" \/ activeWalletId = NoId

\* !description || !amount || !date || !activeWalletId
submitRefused ==
  description = "" \/ amount = "" \/ date = "" \/ activeWalletId = NoId

\* the payload of handleSubmit
payload(freshId) ==
  Transaction(IF editingId # NoId THEN editingId ELSE freshId,
              description, parseFloat(amount), type, date, category)

\* editingId ? w.transactions.map(..) : [...w.transactions, payload]
updatedTransactions(ts, editing, p) ==
  IF editing # NoId
    THEN [i \in 1..Len(ts) |-> IF ts[i].id = editing THEN p ELSE ts[i]]
    ELSE Append(ts, p)

\* a submit that forgets the w.id === activeWalletId test
submitWalletsAll(prev, active, editing, p) ==
  [i \in 1..Len(prev) |->
     [prev[i] EXCEPT !.transactions = updatedTransactions(@, editing, p)]]

\* prev.map(w => w.id === activeWalletId ? {...w, transactions: ..} : w)
submitWallets(prev, active, editing, p) ==
  [i \in 1..Len(prev) |->
     IF prev[i].id = active
       THEN [prev[i] EXCEPT
               !.transactions = updatedTransactions(@, editing, p)]
       ELSE prev[i]]

handleSubmit ==
  /\ pc = "ready"
  /\ IF submitRefused
       THEN /\ lastOp' = Op("submit", NoId, "refused")
            /\ UNCHANGED <<wallets, formVars, localStorage, uuid>>
       ELSE /\ editingId = NoId => uuid < MaxUuid /\ Len(transactions) < MaxTxns
            /\ wallets' = submitWallets(wallets, activeWalletId, editingId,
                                        payload(randomUUID(uuid)))
            /\ uuid' = IF editingId = NoId THEN uuid + 1 ELSE uuid
            /\ editingId' = NoId
            /\ description' = ""
            /\ amount' = ""
            /\ date' = Today
            /\ category' = "General"
            /\ type' = "expense"
            /\ localStorage' = saveEffect(isMounted, wallets', localStorage)
            /\ lastOp' = Op(IF editingId = NoId THEN "add" ELSE "update",
                            payload(randomUUID(uuid)).id, "none")
  /\ UNCHANGED <<activeWalletId, newWalletName, envVars>>

\* the edit button of a listed transaction of the active wallet
handleEdit(t) ==
  /\ pc = "ready"
  /\ editingId' = t.id
  /\ description' = t.description
  /\ amount' = toString(t.amount)
  /\ type' = t.type
  /\ date' = t.date
  /\ category' = t.category
  /\ lastOp' = Op("edit", t.id, "none")
  /\ UNCHANGED <<wallets, activeWalletId, newWalletName, envVars,
                 localStorage, uuid>>

\* prev.map(w => w.id === activeWalletId ? {...w, transactions: filter} : w)
deleteWallets(prev, active, id) ==
  LET keep(t) == t.id # id IN
  [i \in 1..Len(prev) |->
     IF prev[i].id = active
       THEN [prev[i] EXCEPT !.transactions = SelectSeq(@, keep)]
       ELSE prev[i]]

handleDelete(id, confirmed) ==
  /\ pc = "ready"
  /\ IF confirmed
       THEN /\ wallets' = deleteWallets(wallets, activeWalletId, id)
            /\ localStorage' = saveEffect(isMounted, wallets', localStorage)
            /\ lastOp' = Op("delete", id, "accepted")
       ELSE /\ lastOp' = Op("delete", id, "declined")
            /\ UNCHANGED <<wallets, localStorage>>
  /\ UNCHANGED <<activeWalletId, formVars, newWalletName, envVars, uuid>>

cancelEdit ==
  /\ pc = "ready"
  /\ editingId' = NoId
  /\ description' = ""
  /\ amount' = ""
  /\ category' = "General"
  /\ lastOp' = Op("cancelEdit", NoId, "none")
  /\ UNCHANGED <<wallets, activeWalletId, type, date, newWalletName, envVars,
                 localStorage, uuid>>

\* onChange of the five form controls
setForm(d, a, ty, dt, c) ==
  /\ pc = "ready"
  /\ description' = d
  /\ amount' = a
  /\ type' = ty
  /\ date' = dt
  /\ category' = c
  /\ lastOp' = Op("input", NoId, "none")
  /\ UNCHANGED <<wallets, activeWalletId, editingId, newWalletName, envVars,
                 localStorage, uuid>>

setDescription(v) == setForm(v, amount, type, date, category)
setAmount(v) == setForm(description, v, type, date, category)
setType(v) == setForm(description, amount, v, date, category)
setDate(v) == setForm(description, amount, type, v, category)
setCategory(v) == setForm(description, amount, type, date, v)

\* -------------------------------------------------------------------- next
\* The handlers are taken with every argument they accept, not only the ones
\* the rendered controls pass.  The user types descriptions and amounts; type,
\* date and category hold what the form reset and handleEdit give them.
Next ==
  \/ Mount
  \/ Settle
  \/ Reload
  \/ handleCreateWallet
  \/ \E walletId \in ids(wallets) \cup {NoId}, confirmed \in BOOLEAN :
       handleDeleteWallet(walletId, confirmed)
  \/ \E id \in ids(wallets) : setActiveWalletId(id)
  \/ \E v \in WalletNames : setNewWalletName(v)
  \/ handleSubmit
  \/ \E i \in 1..Len(transactions) : handleEdit(transactions[i])
  \/ \E i \in 1..Len(transactions), confirmed \in BOOLEAN :
       handleDelete(transactions[i].id, confirmed)
  \/ cancelEdit
  \/ \E v \in Descriptions : setDescription(v)
  \/ \E v \in AmountTexts : setAmount(v)

\* ------------------------------------------------------------------ Date
\* getFullYear() of the day the page is opened on
OpenedYear == DateOf(Today).y

\* Days since 1970-01-01 of day 1 of month mn (0..11) of year yr, in the
\* proleptic Gregorian calendar (the day number of ECMAScript's MakeDay).
daysFromCivil(yr, mn) ==
  LET yy == IF mn < 2 THEN yr - 1 ELSE yr
      era == yy \div 400
      yoe == yy - era * 400
      mp == IF mn < 2 THEN mn + 10 ELSE mn - 2
      doy == (153 * mp + 2) \div 5
      doe == yoe * 365 + yoe \div 4 - yoe \div 100 + doy
  IN era * 146097 + doe - 719468

\* The calendar day [y, m, d] (m in 0..11) of a number of days since
\* 1970-01-01 (YearFromTime, MonthFromTime, DateFromTime).
civilFromDays(days) ==
  LET z == days + 719468
      era == z \div 146097
      doe == z - era * 146097
      yoe == (doe - doe \div 1460 + doe \div 36524 - doe \div 146096) \div 365
      doy == doe - (365 * yoe + yoe \div 4 - yoe \div 100)
      mp == (5 * doy + 2) \div 153
      mn == IF mp < 10 THEN mp + 2 ELSE mp - 10
  IN [y |-> yoe + era * 400 + (IF mn < 2 THEN 1 ELSE 0), m |-> mn,
      d |-> doy - (153 * mp + 2) \div 5 + 1]

\* MakeDay(year, month, date): month and date need not be in range, the
\* month carries into the year and the date counts on from day 1
MakeDay(yr, mn, dt) ==
  daysFromCivil(yr + mn \div 12, mn % 12) + dt - 1

\* new Date(year, month, date), setMonth and setFullYear: the calendar day
\* the given fields normalise to
MakeDate(yr, mn, dt) == civilFromDays(MakeDay(yr, mn, dt))

\* getDay(): 0 is Sunday; 1970-01-01 was a Thursday
getDay(day) == (MakeDay(day.y, day.m, day.d) + 4) % 7

\* new Date(text) seen through getFullYear(), getMonth() and getDate(): the
\* text is parsed as midnight UTC, the getters answer in local time
localDate(text) ==
  LET utc == DateOf(text)
  IN civilFromDays((MakeDay(utc.y, utc.m, utc.d) * 24 + timeZone) \div 24)

\* ----------------------------------------------------------- period view
\* newDate.setMonth(mn) on a copy of day: the day of the month is kept
setMonth(day, mn) == MakeDate(day.y, mn, day.d)

\* newDate.setFullYear(yr) on a copy of day
setFullYear(day, yr) == MakeDate(yr, day.m, day.d)

\* a navigation that leaves the selected day alone
navigateTimeKeepDay(direction) ==
  LET step == IF direction = "next" THEN 1 ELSE -1
      newDate == IF viewMode = "daily"
                   THEN setMonth(currentDate, currentDate.m + step)
                   ELSE setFullYear(currentDate, currentDate.y + step)
  IN /\ pc = "ready"
     /\ newDate.y \in (OpenedYear - MaxYearsAway)..(OpenedYear + MaxYearsAway)
     /\ currentDate' = newDate
     /\ selectedDay' = selectedDay
     /\ lastOp' = Op("navigate", NoId, direction)
     /\ UNCHANGED <<pc, isMounted, viewMode, timeZone, wallets,
                    activeWalletId, newWalletName, formVars, localStorage,
                    uuid>>

navigateTime(direction) ==
  LET step == IF direction = "next" THEN 1 ELSE -1
      newDate == IF viewMode = "daily"
                   THEN setMonth(currentDate, currentDate.m + step)
                   ELSE setFullYear(currentDate, currentDate.y + step)
  IN /\ pc = "ready"
     /\ newDate.y \in (OpenedYear - MaxYearsAway)..(OpenedYear + MaxYearsAway)
     /\ currentDate' = newDate
     /\ selectedDay' = IF viewMode = "daily" THEN NoDay ELSE selectedDay
     /\ lastOp' = Op("navigate", NoId, direction)
     /\ UNCHANGED <<pc, isMounted, viewMode, timeZone, wallets,
                    activeWalletId, newWalletName, formVars, localStorage,
                    uuid>>

\* a month length taken from the month before
daysInMonthBefore(year, month) == MakeDate(year, month, 0).d

\* new Date(year, month + 1, 0).getDate()
daysInMonth(year, month) == MakeDate(year, month + 1, 0).d

\* a click that always selects
clickedDayAlways(selected, day) == day

\* selectedDay === day ? null : day
clickedDay(selected, day) == IF selected = day THEN NoDay ELSE day

\* the click on a day cell of the calendar, which is drawn in daily mode
\* and has one cell for each day of currentDate's month
handleDayClick(day) ==
  /\ pc = "ready"
  /\ viewMode = "daily"
  /\ day \in 1..daysInMonth(currentDate.y, currentDate.m)
  /\ selectedDay' = clickedDay(selectedDay, day)
  /\ lastOp' = Op("dayClick", day, "none")
  /\ UNCHANGED <<pc, isMounted, viewMode, currentDate, timeZone, wallets,
                 activeWalletId, newWalletName, formVars, localStorage, uuid>>

\* the Clear Filter button, drawn while a day is selected
clearFilter ==
  /\ pc = "ready"
  /\ selectedDay # NoDay
  /\ selectedDay' = NoDay
  /\ lastOp' = Op("clearFilter", NoId, "none")
  /\ UNCHANGED <<pc, isMounted, viewMode, currentDate, timeZone, wallets,
                 activeWalletId, newWalletName, formVars, localStorage, uuid>>

\* view buttons that forget setSelectedDay(null)
setViewModeOnly(mode) ==
  /\ pc = "ready"
  /\ viewMode' = mode
  /\ lastOp' = Op("setViewMode", selectedDay, mode)
  /\ UNCHANGED <<pc, isMounted, selectedDay, currentDate, timeZone, wallets,
                 activeWalletId, newWalletName, formVars, localStorage, uuid>>

\* the Daily and Monthly buttons: setViewMode(mode); setSelectedDay(null).
\* lastOp keeps the day that was selected when the button was clicked.
setViewMode(mode) ==
  /\ pc = "ready"
  /\ viewMode' = mode
  /\ selectedDay' = NoDay
  /\ lastOp' = Op("setViewMode", selectedDay, mode)
  /\ UNCHANGED <<pc, isMounted, currentDate, timeZone, wallets,
                 activeWalletId, newWalletName, formVars, localStorage, uuid>>

\* the predicate of filteredTransactions
inPeriod(t) ==
  LET tDate == localDate(t.date)
      isSameYear == tDate.y = currentDate.y
      isSameMonth == tDate.m = currentDate.m
  IN IF viewMode = "daily" THEN isSameYear /\ isSameMonth ELSE isSameYear

filteredTransactions == SelectSeq(transactions, inPeriod)

onSelectedDay(t) == localDate(t.date).d = selectedDay

displayList ==
  IF viewMode = "daily" /\ selectedDay # NoDay
    THEN SelectSeq(filteredTransactions, onSelectedDay)
    ELSE filteredTransactions

\* reduce((acc, c) => acc + c.amount, 0)
RECURSIVE sumAmounts(_)
sumAmounts(ts) ==
  IF ts = <<>> THEN 0 ELSE Head(ts).amount + sumAmounts(Tail(ts))

isIncome(t) == t.type = "income"
\* the else branch of stats and of monthlyChartData
notIncome(t) == t.type # "income"
isExpense(t) == t.type = "expense"

\* stats that add every entry to expense
statsOfAllExpense(ts) ==
  LET income == sumAmounts(SelectSeq(ts, isIncome))
      expense == sumAmounts(ts)
  IN [income |-> income, expense |-> expense, balance |-> income - expense]

\* the body of stats: an entry adds to income when its type is "income",
\* to expense otherwise
statsOf(ts) ==
  LET income == sumAmounts(SelectSeq(ts, isIncome))
      expense == sumAmounts(SelectSeq(ts, notIncome))
  IN [income |-> income, expense |-> expense, balance |-> income - expense]

stats == statsOf(filteredTransactions)

months ==
  <<"Jan", "Feb", "Mar", "Apr", "May", "Jun", "Jul", "Aug", "Sep", "Oct",
    "Nov", "Dec">>

\* Object.values(dataMap): one entry per month index 0..11, in index order
monthlyChartData ==
  IF viewMode = "daily" THEN <<>>
  ELSE [i \in 1..Len(months) |->
          LET ofMonth == SelectSeq(filteredTransactions,
                                   LAMBDA t : localDate(t.date).m = i - 1)
          IN [name |-> months[i],
              income |-> sumAmounts(SelectSeq(ofMonth, isIncome)),
              expense |-> sumAmounts(SelectSeq(ofMonth, notIncome))]]

\* new Date(year, month, 1).getDay()
firstDayOfMonth(year, month) == getDay(MakeDate(year, month, 1))

blankCell == [day |-> NoDay, income |-> 0, expense |-> 0]

\* a cell that gathers from the displayed list
dayCellOfDisplayList(i) ==
  LET dayTransactions == SelectSeq(displayList,
                                   LAMBDA t : localDate(t.date).d = i)
  IN [day |-> i,
      income |-> sumAmounts(SelectSeq(dayTransactions, isIncome)),
      expense |-> sumAmounts(SelectSeq(dayTransactions, isExpense))]

\* the cell calendarData pushes for day i
dayCell(i) ==
  LET dayTransactions == SelectSeq(filteredTransactions,
                                   LAMBDA t : localDate(t.date).d = i)
  IN [day |-> i,
      income |-> sumAmounts(SelectSeq(dayTransactions, isIncome)),
      expense |-> sumAmounts(SelectSeq(dayTransactions, isExpense))]

\* calendarData: isNull in monthly mode, else the blank cells followed by
\* the day cells
calendarData ==
  IF viewMode = "monthly" THEN [isNull |-> TRUE, days |-> <<>>]
  ELSE LET year == currentDate.y
           month == currentDate.m
           blanks == [i \in 1..firstDayOfMonth(year, month) |-> blankCell]
           cells == [i \in 1..daysInMonth(year, month) |-> dayCell(i)]
       IN [isNull |-> FALSE, days |-> blanks \o cells]

\* ------------------------------------------------------- the load alone
\* A stored array whose first element is a wallet and whose second element
\* is an object without a transactions field, as something other than this
\* program may have left under the key.
NoListWallet == [id |-> 2, name |-> "Work"]

LoadValues ==
  { JsonArray(<<Wallet(1, "Home", <<StoredT1>>), NoListWallet>>),
    JsonArray(<<Wallet(1, "Home", <<StoredT1>>), Wallet(2, "Work", <<>>)>>) }

InitLoad == InitWith(LoadValues, {DateOf(Today)}, {0})

\* activeWallet.transactions is undefined and transactions.filter throws
\* while the component renders: the page is gone
renderThrows ==
  \E i \in 1..Len(wallets) :
    wallets[i].id = activeWalletId /\ "transactions" \notin DOMAIN wallets[i]

\* the load and the wallet controls, which are there while the page renders
NextLoad ==
  \/ Mount
  \/ Settle
  \/ ~renderThrows /\ handleCreateWallet
  \/ /\ ~renderThrows
     /\ \E walletId \in ids(wallets), confirmed \in BOOLEAN :
          handleDeleteWallet(walletId, confirmed)
  \/ ~renderThrows /\ \E id \in ids(wallets) : setActiveWalletId(id)
  \/ ~renderThrows /\ \E v \in WalletNames : setNewWalletName(v)

\* ------------------------------------------------- the period view alone
\* What an earlier session left: a wallet with entries in March 2024, on the
\* first day of April 2024 and on the first day of 2025, and a second wallet
\* with an entry of its own.
ViewT1 == Transaction(21, "salary", 100, "income", "2024-03-10", "Salary")
ViewT2 == Transaction(22, "bonus", 50, "income", "2024-03-20", "Salary")
ViewT3 == Transaction(23, "lunch", 30, "expense", "2024-03-05", "Food")
ViewT4 == Transaction(24, "rent", 40, "expense", "2024-04-01", "General")
ViewT5 == Transaction(25, "gift", 7, "income", "2025-01-01", "General")
ViewT6 == Transaction(31, "fee", 40, "expense", "2024-03-10", "General")

ViewWallets ==
  <<Wallet(1, "Home", <<ViewT1, ViewT2, ViewT3, ViewT4, ViewT5>>),
    Wallet(2, "Work", <<ViewT6>>)>>

\* the days the page is opened on and the time zones it is opened in
\* (hours ahead of UTC)
OpenedDays == {DateOf(Today), DateOf("2024-01-31"), DateOf("2024-02-29")}
TimeZones == {-5, 0, 8}
\* the day cells that are clicked
ClickedDays == {5, 9, 31}
ViewModes == {"daily", "monthly"}
Directions == {"prev", "next"}

InitView == InitWith({stringify(ViewWallets)}, OpenedDays, TimeZones)

NextView ==
  \/ Mount
  \/ Settle
  \/ \E direction \in Directions : navigateTime(direction)
  \/ \E day \in ClickedDays : handleDayClick(day)
  \/ clearFilter
  \/ \E mode \in ViewModes : setViewMode(mode)
  \/ \E id \in ids(wallets) : setActiveWalletId(id)

\* ------------------------------------------------ the form's constraints
\* required: the control holds no value
valueMissing(text) == text = ""

\* an amount input without min="0"
rangeUnderflowNever(text) == FALSE

\* type="number" min="0": the control holds a number below the minimum
rangeUnderflow(text) == text # "" /\ parseFloat(text) < 0

\* form.checkValidity(): description, amount and date are required and the
\* amount is a number input with min="0"
checkValidity ==
  /\ ~valueMissing(description)
  /\ ~valueMissing(amount)
  /\ ~rangeUnderflow(amount)
  /\ ~valueMissing(date)

\* The submit button (or Enter in a field) of <form onSubmit={handleSubmit}>:
\* the browser validates the constraints of the form's controls and fires
\* the submit event, which runs handleSubmit, only when they all hold.
requestSubmit ==
  IF checkValidity
    THEN handleSubmit
    ELSE /\ pc = "ready"
         /\ lastOp' = Op("submit", NoId, "invalid")
         /\ UNCHANGED <<wallets, activeWalletId, newWalletName, formVars,
                        envVars, localStorage, uuid>>

\* The form on its own: one session over an empty store, every control of
\* the transaction form, submit, edit and cancel.  In NextForm handleSubmit
\* runs on whatever the form holds, as when the submit event reaches it
\* without the browser's validation; in NextValidated it runs behind it.
InitForm == InitWith({Absent}, {DateOf(Today)}, {0})

NextValidated ==
  \/ Mount
  \/ Settle
  \/ requestSubmit
  \/ \E i \in 1..Len(transactions) : handleEdit(transactions[i])
  \/ cancelEdit
  \/ \E v \in Descriptions : setDescription(v)
  \/ \E v \in FormAmountTexts : setAmount(v)
  \/ \E v \in Types : setType(v)
  \/ \E v \in Dates : setDate(v)
  \/ \E v \in Categories : setCategory(v)

NextForm ==
  \/ Mount
  \/ Settle
  \/ handleSubmit
  \/ \E i \in 1..Len(transactions) : handleEdit(transactions[i])
  \/ cancelEdit
  \/ \E v \in Descriptions : setDescription(v)
  \/ \E v \in AmountTexts : setAmount(v)
  \/ \E v \in Types : setType(v)
  \/ \E v \in Dates : setDate(v)
  \/ \E v \in Categories : setCategory(v)

\* Adding to an empty wallet and then moving the period: the form is filled
\* in with a description, an amount and a date of March 2024, submitted,
\* and the period is moved with the navigation buttons.
AddDates == {"2024-03-01", "2024-03-10"}

InitAdd == InitWith({Absent}, {DateOf(Today)}, TimeZones)

NextAdd ==
  \/ Mount
  \/ Settle
  \/ \E v \in Descriptions : setDescription(v)
  \/ \E v \in AmountTexts : setAmount(v)
  \/ \E v \in AddDates : setDate(v)
  \/ requestSubmit
  \/ \E direction \in Directions : navigateTime(direction)

\* ------------------------------------------------------------------ claims
WalletsValid == Len(wallets) > 0 /\ activeWalletId \in ids(wallets)

\* C1 as stated: in every reachable state, the initial one included, the
\* wallet collection is non-empty and activeWalletId is the id of one of its
\* wallets.
C1_EveryState == WalletsValid

\* C1 amended: in every state from the load effect on, the wallet collection
\* is non-empty and activeWalletId is the id of one of its wallets.
C1_AfterLoad == pc # "constructed" => WalletsValid

\* the active wallet was deleted and another wallet took over
C1_Witness ==
  /\ lastOp.op = "deleteWallet" /\ lastOp.outcome = "accepted"
  /\ lastOp.id # NoId /\ lastOp.id \notin ids(wallets)
  /\ WalletsValid

\* C2: handleDeleteWallet on a collection of exactly one wallet changes
\* neither the wallets nor activeWalletId nor the stored value, shows the
\* alert and does not ask for confirmation, whatever id it is given.
C2_LastWalletKept ==
  [][lastOp'.op = "deleteWallet" /\ Len(wallets) = 1
       => /\ wallets' = wallets
          /\ activeWalletId' = activeWalletId
          /\ localStorage' = localStorage
          /\ lastOp'.outcome = "alert"]_vars

\* the only wallet was asked to be deleted and is still there
C2_Witness ==
  /\ lastOp.op = "deleteWallet" /\ lastOp.outcome = "alert"
  /\ Len(wallets) = 1 /\ lastOp.id = wallets[1].id

\* ws without its k-th element
DropAt(ws, k) == SubSeq(ws, 1, k - 1) \o SubSeq(ws, k + 1, Len(ws))

\* C3: a confirmed handleDeleteWallet(id) on two or more wallets removes
\* exactly the wallet with that id, keeps the others in their order, and
\* makes the first remaining wallet active if the removed one was active,
\* leaving activeWalletId alone otherwise.
C3_DeleteRemovesOne ==
  [][lastOp'.op = "deleteWallet" /\ lastOp'.outcome = "accepted"
       => /\ Len(wallets) >= 2
          /\ IF lastOp'.id \in ids(wallets)
               THEN \E k \in 1..Len(wallets) :
                      /\ wallets[k].id = lastOp'.id
                      /\ wallets' = DropAt(wallets, k)
               ELSE wallets' = wallets
          /\ activeWalletId' = IF activeWalletId = lastOp'.id
                                 THEN wallets'[1].id
                                 ELSE activeWalletId]_vars

\* a wallet in the middle or at the end was removed and two others remain
C3_Witness ==
  /\ lastOp.op = "deleteWallet" /\ lastOp.outcome = "accepted"
  /\ lastOp.id # NoId /\ lastOp.id \notin ids(wallets)
  /\ Len(wallets) = 2
  /\ activeWalletId = wallets[1].id

\* C4: handleCreateWallet changes neither wallets nor activeWalletId when the
\* name trims to the empty string; otherwise it appends one wallet with no
\* transactions, leaves the existing wallets as they were and makes the new
\* wallet the active one.
C4_CreateWallet ==
  [][lastOp'.op = "createWallet"
       => IF trim(newWalletName) = ""
            THEN wallets' = wallets /\ activeWalletId' = activeWalletId
            ELSE /\ Len(wallets') = Len(wallets) + 1
                 /\ SubSeq(wallets', 1, Len(wallets)) = wallets
                 /\ wallets'[Len(wallets')].transactions = <<>>
                 /\ wallets'[Len(wallets')].id \notin ids(wallets)
                 /\ activeWalletId' = wallets'[Len(wallets')].id]_vars

\* a wallet was created next to an existing one and is active
C4_Witness ==
  /\ lastOp.op = "createWallet" /\ lastOp.outcome = "none"
  /\ Len(wallets) >= 2
  /\ wallets[Len(wallets)].id = lastOp.id
  /\ wallets[Len(wallets)].transactions = <<>>
  /\ activeWalletId = lastOp.id

\* C5: a submit (add or update) and a delete of a transaction keep the number
\* and order of the wallets, every wallet's id and name, and every field of
\* every wallet other than the active one.
C5_OnlyActiveWallet ==
  [][lastOp'.op \in {"add", "update", "delete"}
       => /\ Len(wallets') = Len(wallets)
          /\ \A i \in 1..Len(wallets) :
               /\ wallets'[i].id = wallets[i].id
               /\ wallets'[i].name = wallets[i].name
               /\ wallets[i].id # activeWalletId
                    => wallets'[i] = wallets[i]]_vars

\* a transaction was added to the active wallet while another wallet holds
\* transactions of its own
C5_Witness ==
  /\ lastOp.op = "add"
  /\ \E i \in 1..Len(transactions) : transactions[i].id = lastOp.id
  /\ \E i \in 1..Len(wallets) :
       /\ wallets[i].id # activeWalletId
       /\ Len(wallets[i].transactions) > 0
       /\ \A k \in 1..Len(wallets[i].transactions) :
            wallets[i].transactions[k].id # lastOp.id

\* the stored value is a JSON array none of whose items has a transactions
\* field
IsLegacy(data) ==
  /\ data.kind = "array"
  /\ \A i \in 1..Len(data.items) :
       /\ "primitive" \notin DOMAIN data.items[i]
       /\ "transactions" \notin DOMAIN data.items[i]

\* C6: loading a legacy flat array of transactions T gives exactly one
\* wallet, named "Main Wallet", whose transactions are T item for item, and
\* that wallet is the active one.
C6_LegacyMigration ==
  [][lastOp'.op = "load" /\ IsLegacy(localStorage.data)
       => /\ Len(wallets') = 1
          /\ wallets'[1].name = "Main Wallet"
          /\ wallets'[1].transactions = localStorage.data.items
          /\ activeWalletId' = wallets'[1].id]_vars

\* a legacy array of two transactions was loaded
C6_Witness ==
  /\ pc = "mounted" /\ lastOp.op = "load"
  /\ IsLegacy(localStorage.data) /\ Len(localStorage.data.items) = 2
  /\ wallets[1].transactions = localStorage.data.items

\* the stored value is absent, empty, not JSON, not an array, or an array
\* whose first item cannot be probed
IsUnusable(data) ==
  \/ data.kind \in {"absent", "empty", "garbage", "nonarray"}
  \/ /\ data.kind = "array"
     /\ Len(data.items) > 0
     /\ "primitive" \in DOMAIN data.items[1]

\* C7: loading an absent, empty, unparsable, non-array or unprobeable stored
\* value completes and gives exactly one wallet, named "Main Wallet", with no
\* transactions, and makes it active.
C7_LoadFailsSoft ==
  [][pc = "constructed" /\ IsUnusable(localStorage.data)
       => /\ pc' = "mounted"
          /\ Len(wallets') = 1
          /\ wallets'[1].name = "Main Wallet"
          /\ wallets'[1].transactions = <<>>
          /\ activeWalletId' = wallets'[1].id]_vars

\* an array with a primitive first item was loaded
C7_Witness ==
  /\ pc = "mounted" /\ lastOp.op = "load"
  /\ localStorage.data = JsonArray(<<Primitive>>)
  /\ Len(wallets) = 1 /\ wallets[1].transactions = <<>>

\* C8: when the stored value was written by the save effect, loading it and
\* saving again without a mutation in between stores an equal value.
C8_SaveLoadIdempotent ==
  [][pc = "mounted" /\ localStorage.writer = "app"
       => localStorage'.data = localStorage.data]_vars

\* a collection of two wallets stored by an earlier session was loaded and
\* saved again
C8_Witness ==
  /\ pc = "ready" /\ lastOp.op = "save" /\ lastOp.outcome = "resave"
  /\ Len(wallets) >= 2
  /\ localStorage.written
  /\ localStorage.data = stringify(wallets)

\* C9: nothing is written under the key before the load effect has run, the
\* step that runs the load effect writes nothing, and the value written is
\* never the empty collection the component starts with.
C9_SaveAfterLoad ==
  [][/\ pc = "constructed"
          => localStorage' = localStorage /\ ~localStorage.written
     /\ localStorage'.written
          => /\ isMounted
             /\ localStorage'.data # stringify(<<>>)
             /\ localStorage'.data = stringify(wallets')]_vars

\* the first write of a session, made after a legacy value was loaded
C9_Witness ==
  /\ pc = "ready" /\ lastOp.op = "save" /\ lastOp.outcome = "none"
  /\ localStorage.written
  /\ Len(wallets) = 1 /\ Len(wallets[1].transactions) = 2

\* C10 as stated: a submit while an edit is in progress leaves the wallet
\* that holds the edited transaction with as many transactions as before and
\* with, at the position of the edited one, a transaction of the same id that
\* carries the submitted description, amount, type, date and category.
C10_EditReplaces ==
  [][lastOp'.op = "update"
       => \A i \in 1..Len(wallets) :
            \A k \in 1..Len(wallets[i].transactions) :
              wallets[i].transactions[k].id = editingId
                => /\ Len(wallets'[i].transactions)
                        = Len(wallets[i].transactions)
                   /\ wallets'[i].transactions[k] =
                        Transaction(editingId, description,
                                    parseFloat(amount), type, date,
                                    category)]_vars

\* C11: a submit with an empty description, an empty amount or an empty date
\* changes neither the wallets, nor activeWalletId, nor editingId, nor any
\* form field, nor the stored value, and mints no id.
C11_SubmitRejected ==
  [][(lastOp'.op \in {"submit", "add", "update"}
        /\ (description = "" \/ amount = "" \/ date = ""))
       => /\ lastOp'.outcome = "refused"
          /\ UNCHANGED <<wallets, activeWalletId, formVars, localStorage,
                         uuid>>]_vars

\* a submit with a description and an amount but no date was refused
C11_Witness ==
  /\ lastOp.op = "submit" /\ lastOp.outcome = "refused"
  /\ description # "" /\ amount # "" /\ date = ""
  /\ activeWalletId # NoId

\* C12: a submit of the form whose amount is missing or below zero is
\* rejected and changes nothing; after any submit every transaction the
\* wallets hold (all of them stored by submit) has a non-empty description,
\* an amount that is not negative, a type of the two-valued enumeration and
\* a category of the fixed set.
C12_StoredValid ==
  [][lastOp'.op \in {"submit", "add", "update"}
       => /\ (IF amount = "" THEN TRUE ELSE parseFloat(amount) < 0)
               => /\ lastOp'.outcome \in {"refused", "invalid"}
                  /\ UNCHANGED <<wallets, activeWalletId, formVars,
                                 localStorage, uuid>>
          /\ \A i \in 1..Len(wallets') :
               \A k \in 1..Len(wallets'[i].transactions) :
                 LET t == wallets'[i].transactions[k] IN
                 /\ t.description # ""
                 /\ t.amount >= 0
                 /\ t.type \in Types
                 /\ t.category \in AllCategories]_vars

\* a submit of a form holding a description, a date and the amount -5 was
\* rejected
C12_Witness ==
  /\ lastOp.op = "submit" /\ lastOp.outcome = "invalid"
  /\ description # "" /\ date # "" /\ amount = "-5"
  /\ activeWalletId # NoId

\* the year and the month (0..11) written in a stored date text
TextYear(text) == DateOf(text).y
TextMonth(text) == DateOf(text).m
TextDay(text) == DateOf(text).d

\* the entries of ts whose written date is in the period of currentDate
RECURSIVE DatedInPeriod(_)
DatedInPeriod(ts) ==
  IF ts = <<>> THEN <<>>
  ELSE LET t == Head(ts)
           fits == /\ TextYear(t.date) = currentDate.y
                   /\ viewMode = "daily" => TextMonth(t.date) = currentDate.m
       IN (IF fits THEN <<t>> ELSE <<>>) \o DatedInPeriod(Tail(ts))

\* C13 as stated: the filtered set is exactly the active wallet's entries
\* whose written year and month (daily mode) or written year (monthly mode)
\* are those of currentDate, and holds no entry of another wallet.
C13_FilteredByPeriod ==
  /\ filteredTransactions = DatedInPeriod(transactions)
  /\ \A k \in 1..Len(filteredTransactions) :
       \E j \in 1..Len(transactions) :
         transactions[j] = filteredTransactions[k]

\* C14 as stated: in daily mode with no day selected, a wallet that was
\* empty and received one expense of amount a written in month M of year Y
\* shows exactly that entry with stats (0, a, -a) while currentDate is in
\* (Y, M), and nothing with stats (0, 0, 0) while it is in another month.
C14_AddThenFilter ==
  (/\ pc = "ready" /\ viewMode = "daily" /\ selectedDay = NoDay
   /\ Len(transactions) = 1 /\ transactions[1].type = "expense")
  => LET t == transactions[1]
         a == t.amount
     IN IF TextYear(t.date) = currentDate.y
             /\ TextMonth(t.date) = currentDate.m
          THEN /\ displayList = <<t>>
               /\ stats = [income |-> 0, expense |-> a, balance |-> 0 - a]
          ELSE /\ displayList = <<>>
               /\ stats = [income |-> 0, expense |-> 0, balance |-> 0]

\* the sum of amount over the first n entries of ts that have type ty
RECURSIVE TypeTotal(_, _, _)
TypeTotal(ts, ty, n) ==
  IF n = 0 THEN 0
  ELSE TypeTotal(ts, ty, n - 1)
         + (IF ts[n].type = ty THEN ts[n].amount ELSE 0)

\* C15: stats.income is the sum of amount over the filtered entries of type
\* income, stats.expense the sum over those of type expense, and
\* stats.balance their difference; income entries 100 and 50 with an expense
\* entry 30 give (150, 30, 120) and an empty filtered set gives (0, 0, 0).
C15_Stats ==
  LET fs == filteredTransactions IN
  /\ stats.income = TypeTotal(fs, "income", Len(fs))
  /\ stats.expense = TypeTotal(fs, "expense", Len(fs))
  /\ stats.balance = stats.income - stats.expense
  /\ fs = <<>> => stats = [income |-> 0, expense |-> 0, balance |-> 0]
  /\ ([k \in 1..Len(fs) |-> <<fs[k].type, fs[k].amount>>]
        = <<<<"income", 100>>, <<"income", 50>>, <<"expense", 30>>>>)
       => stats = [income |-> 150, expense |-> 30, balance |-> 120]

\* the filtered set holds the incomes 100 and 50 and the expense 30
C15_Witness ==
  /\ pc = "ready"
  /\ filteredTransactions = <<ViewT1, ViewT2, ViewT3>>
  /\ stats = [income |-> 150, expense |-> 30, balance |-> 120]

\* the entries of ts whose written month is m (0..11)
DatedInMonth(ts, m) == SelectSeq(ts, LAMBDA t : TextMonth(t.date) = m)

\* C16 as stated, in monthly mode: the series has exactly 12 entries named
\* Jan..Dec in that order, and entry m holds the summed income and the
\* summed expense of the filtered entries written in month m (0 and 0 when
\* there is none).
C16_MonthlySeries ==
  (pc = "ready" /\ viewMode = "monthly")
  => /\ Len(monthlyChartData) = 12
     /\ \A i \in 1..Len(monthlyChartData) :
          LET ofMonth == DatedInMonth(filteredTransactions, i - 1)
          IN monthlyChartData[i] =
               [name |-> months[i],
                income |-> TypeTotal(ofMonth, "income", Len(ofMonth)),
                expense |-> TypeTotal(ofMonth, "expense", Len(ofMonth))]

\* the leap-year rule and the lengths of the months January..December
IsLeapYear(yr) == yr % 4 = 0 /\ (yr % 100 # 0 \/ yr % 400 = 0)

MonthLength(yr, mn) ==
  IF mn = 1 THEN (IF IsLeapYear(yr) THEN 29 ELSE 28)
  ELSE <<31, 0, 31, 30, 31, 30, 31, 31, 30, 31, 30, 31>>[mn + 1]

\* the weekday (0 = Sunday) of the first day of month mn (0..11) of year yr,
\* by the table of month offsets
FirstWeekday(yr, mn) ==
  LET yy == IF mn < 2 THEN yr - 1 ELSE yr
      offset == <<0, 3, 2, 5, 0, 3, 5, 1, 4, 6, 2, 4>>[mn + 1]
  IN (yy + yy \div 4 - yy \div 100 + yy \div 400 + offset + 1) % 7

\* C17: in daily mode the calendar is w blank cells followed by the day
\* cells numbered 1..N in increasing order, w being the weekday of the first
\* day of currentDate's month and N its length (w in 0..6, N in 28..31 with
\* February following the leap-year rule); in monthly mode it is null.
C17_CalendarShape ==
  pc = "ready" =>
    IF viewMode = "monthly" THEN calendarData.isNull
    ELSE LET w == FirstWeekday(currentDate.y, currentDate.m)
             N == MonthLength(currentDate.y, currentDate.m)
             days == calendarData.days
         IN /\ ~calendarData.isNull
            /\ w \in 0..6 /\ N \in 28..31
            /\ Len(days) = w + N
            /\ \A i \in 1..Len(days) :
                 days[i].day = IF i <= w THEN NoDay ELSE i - w
            /\ \A i \in 1..w : days[i] = blankCell

\* the calendar of February 2024 is drawn: 4 blank cells and 29 day cells
C17_Witness ==
  /\ pc = "ready" /\ viewMode = "daily"
  /\ currentDate.y = 2024 /\ currentDate.m = 1
  /\ Len(calendarData.days) = 33
  /\ calendarData.days[5].day = 1

\* the entries of ts written for day d of currentDate's month and year
DatedOnDay(ts, d) ==
  SelectSeq(ts, LAMBDA t : /\ TextYear(t.date) = currentDate.y
                           /\ TextMonth(t.date) = currentDate.m
                           /\ TextDay(t.date) = d)

\* C18 as stated: in daily mode the cell of day d carries exactly the summed
\* income and the summed expense of the active wallet's entries written for
\* day d of currentDate's month and year.
C18_CalendarCells ==
  (pc = "ready" /\ viewMode = "daily")
  => \A i \in 1..Len(calendarData.days) :
       LET cell == calendarData.days[i]
           onDay == DatedOnDay(transactions, cell.day)
       IN cell.day # NoDay
            => /\ cell.income = TypeTotal(onDay, "income", Len(onDay))
               /\ cell.expense = TypeTotal(onDay, "expense", Len(onDay))

\* C19: a click on day d selects d when no day or another day is selected
\* and clears the selection when d is the selected day; Clear Filter clears
\* the selection; neither changes viewMode, currentDate, the wallets or the
\* active wallet.
C19_DayToggle ==
  [][/\ lastOp'.op = "dayClick"
          => LET d == lastOp'.id IN
             /\ selectedDay = NoDay => selectedDay' = d
             /\ selectedDay = d => selectedDay' = NoDay
             /\ selectedDay \notin {NoDay, d} => selectedDay' = d
             /\ UNCHANGED <<viewMode, currentDate, wallets, activeWalletId>>
     /\ lastOp'.op = "clearFilter"
          => /\ selectedDay' = NoDay
             /\ UNCHANGED <<viewMode, currentDate, wallets, activeWalletId>>
    ]_vars

\* the selected day was clicked again and the selection is gone
C19_Witness ==
  /\ lastOp.op = "dayClick" /\ lastOp.id = 5
  /\ selectedDay = NoDay

\* the months counted from year 0: consecutive calendar months differ by 1
MonthIndex(day) == day.y * 12 + day.m

\* C20 as stated: in daily mode Navigate(next) clears selectedDay and moves
\* currentDate to the calendar month after its own (December to January of
\* the next year), Navigate(prev) clears selectedDay and moves it to the
\* calendar month before, whatever day of the month currentDate holds.
C20_NavigateOneMonth ==
  [][(lastOp'.op = "navigate" /\ viewMode = "daily")
       => /\ selectedDay' = NoDay
          /\ lastOp'.outcome = "next"
               => MonthIndex(currentDate') = MonthIndex(currentDate) + 1
          /\ lastOp'.outcome = "prev"
               => MonthIndex(currentDate') = MonthIndex(currentDate) - 1
    ]_vars

\* C21: each of the two view buttons, clicked in either mode, sets viewMode
\* to its mode and leaves selectedDay cleared whatever it was, and changes
\* neither currentDate nor the wallets nor the active wallet.
C21_ViewModeClearsDay ==
  [][lastOp'.op = "setViewMode"
       => /\ viewMode' = lastOp'.outcome
          /\ selectedDay' = NoDay
          /\ UNCHANGED <<currentDate, wallets, activeWalletId>>]_vars

\* the daily button was clicked in daily mode while day 5 was selected
C21_Witness ==
  /\ lastOp = Op("setViewMode", 5, "daily")
  /\ viewMode = "daily"
  /\ selectedDay = NoDay

\* C22: no transaction id occurs at two places of the collection, be it in
\* two wallets or twice in one wallet.
C22_OneWalletPerTransaction ==
  \A i, j \in 1..Len(wallets) :
    \A k \in 1..Len(wallets[i].transactions) :
      \A l \in 1..Len(wallets[j].transactions) :
        wallets[i].transactions[k].id = wallets[j].transactions[l].id
          => i = j /\ k = l

\* two wallets hold a transaction each, one of them just added by a submit
C22_Witness ==
  /\ lastOp.op = "add"
  /\ Len(wallets) = 2
  /\ wallets[1].transactions # <<>>
  /\ wallets[2].transactions # <<>>

\* C23 as stated: from the load on, every wallet of the collection (each
\* can be made the active one) has a transactions field holding a list.
C23_ActiveHasList ==
  pc # "constructed"
    => \A i \in 1..Len(wallets) :
         /\ "transactions" \in DOMAIN wallets[i]
         /\ DOMAIN wallets[i].transactions = 1..Len(wallets[i].transactions)

\* C24: choosing a wallet in the wallet select sets activeWalletId to the
\* chosen id and changes neither viewMode, nor selectedDay, nor currentDate,
\* nor any wallet of the collection.
C24_SetActiveFrame ==
  [][lastOp'.op = "setActive"
       => /\ activeWalletId' = lastOp'.id
          /\ UNCHANGED <<viewMode, selectedDay, currentDate, wallets>>]_vars

\* the second wallet was chosen while day 5 was selected, and day 5 still is
C24_Witness ==
  /\ lastOp = Op("setActive", 2, "none")
  /\ activeWalletId = 2
  /\ viewMode = "daily" /\ selectedDay = 5

\* C25: once the load has settled, at the end of every turn the value under
\* the key is the JSON array of the whole wallet collection as it is in
\* memory, whichever handler ran in that turn.
C25_StoredIsCollection ==
  pc = "ready"
    => /\ localStorage.written
       /\ localStorage.data = JsonArray(wallets)

\* a transaction was just added to one of two wallets and the stored array
\* holds both wallets, the new transaction included
C25_Witness ==
  /\ pc = "ready" /\ lastOp.op = "add"
  /\ Len(wallets) = 2
  /\ localStorage.data.kind = "array"
  /\ localStorage.data.items = wallets

\* C26 as stated: in monthly mode Navigate(next) moves the year of
\* currentDate by +1 and Navigate(prev) by -1, the month of currentDate
\* stays what it was, and selectedDay and viewMode are left alone.
C26_NavigateOneYear ==
  [][(lastOp'.op = "navigate" /\ viewMode = "monthly")
       => /\ lastOp'.outcome = "next" => currentDate'.y = currentDate.y + 1
          /\ lastOp'.outcome = "prev" => currentDate'.y = currentDate.y - 1
          /\ currentDate'.m = currentDate.m
          /\ UNCHANGED <<selectedDay, viewMode>>]_vars

\* C27 as stated: while editingId is set it is the id of a transaction of
\* the active wallet.
C27_EditingIdInActive ==
  editingId # NoId
    => \E k \in 1..Len(transactions) : transactions[k].id = editingId

\* C28: after every step selectedDay is null, or a day of the month of
\* currentDate while viewMode is daily; and a step that changes currentDate
\* or viewMode leaves selectedDay null.
C28_SelectedDayInMonth ==
  [][/\ selectedDay' # NoDay
          => /\ viewMode' = "daily"
             /\ selectedDay' \in 1..MonthLength(currentDate'.y, currentDate'.m)
     /\ (currentDate' # currentDate \/ viewMode' # viewMode)
          => selectedDay' = NoDay]_vars

\* day 31 of a month of 31 days was clicked and is selected
C28_Witness ==
  /\ lastOp = Op("dayClick", 31, "none")
  /\ viewMode = "daily" /\ selectedDay = 31
  /\ MonthLength(currentDate.y, currentDate.m) = 31

\* C29 as stated: in daily mode, the date Navigate(next) and then
\* Navigate(prev) lead to from currentDate, and the date Navigate(prev) and
\* then Navigate(next) lead to, are in the year and month of currentDate.
C29_NavigateRoundTrip ==
  (pc = "ready" /\ viewMode = "daily")
  => LET next == setMonth(currentDate, currentDate.m + 1)
         nextPrev == setMonth(next, next.m - 1)
         prev == setMonth(currentDate, currentDate.m - 1)
         prevNext == setMonth(prev, prev.m + 1)
     IN /\ MonthIndex(nextPrev) = MonthIndex(currentDate)
        /\ MonthIndex(prevNext) = MonthIndex(currentDate)

\* the sums of the income and of the expense fields of the first n entries
\* of a series of buckets or cells
RECURSIVE IncomeTotal(_, _)
IncomeTotal(entries, n) ==
  IF n = 0 THEN 0 ELSE IncomeTotal(entries, n - 1) + entries[n].income

RECURSIVE ExpenseTotal(_, _)
ExpenseTotal(entries, n) ==
  IF n = 0 THEN 0 ELSE ExpenseTotal(entries, n - 1) + entries[n].expense

\* C30: whatever day is selected, stats is the total over the whole filtered
\* set, and the 12 buckets (monthly mode) or the day cells of the calendar
\* (daily mode) add up to stats.income and stats.expense.
C30_AggregatesAgree ==
  pc = "ready"
    => LET fs == filteredTransactions
           entries == IF viewMode = "monthly" THEN monthlyChartData
                      ELSE calendarData.days
       IN /\ stats.income = TypeTotal(fs, "income", Len(fs))
          /\ stats.expense = TypeTotal(fs, "expense", Len(fs))
          /\ IncomeTotal(entries, Len(entries)) = stats.income
          /\ ExpenseTotal(entries, Len(entries)) = stats.expense

\* day 5 was clicked in March 2024 and stats still counts the whole month
C30_Witness ==
  /\ lastOp = Op("dayClick", 5, "none")
  /\ selectedDay = 5
  /\ stats = [income |-> 150, expense |-> 30, balance |-> 120]
  /\ IncomeTotal(calendarData.days, Len(calendarData.days)) = 150

Spec == Init /\ [][Next]_vars
SpecForm == InitForm /\ [][NextForm]_vars
SpecValidated == InitForm /\ [][NextValidated]_vars
SpecView == InitView /\ [][NextView]_vars
SpecAdd == InitAdd /\ [][NextAdd]_vars
SpecLoad == InitLoad /\ [][NextLoad]_vars
====
